---- MODULE Spec2Model ----
(***************************************************************************)
(* State-machine model of the request-sequencing composables:              *)
(*   useAsyncTask (src/hooks/useDict.js), useTable (src/unnamed/part_000), *)
(*   useCancelTask (src/hooks/useCanceTask.js), and of the preview         *)
(*   dispatch of useSeeFile (src/unnamed/part_003).                        *)
(* A component calls one composable (variable hook); the refs the          *)
(* composable creates are the variables; every method of the returned      *)
(* object is an action.  The suspension points of an async method (the     *)
(* optional delay, the await on the request function) split it into steps. *)
(***************************************************************************)
EXTENDS Integers, Sequences, FiniteSets, TLC

VARIABLES
  hook,        \* which composable the component has called, and how far its body ran
  options,     \* the options object (and request function) passed to the composable
  requestId,   \* useAsyncTask: let requestId
  data,        \* useAsyncTask: data.value
  loading,     \* useAsyncTask: loading.value
  error,       \* useAsyncTask: error.value
  apiParams,   \* useAsyncTask: apiParams.value
  params,      \* useAsyncTask: options.params, its .value when it is a ref
  calls,       \* useAsyncTask: the invocations of execute, in issue order
  state,       \* useTable: reactive state {data, loading, error, initialized}
  pagination,  \* useTable: reactive pagination {pageNum, pageSize, total}
  fetches,     \* useTable: the invocations of fetchData, in issue order
  searchParams,\* useTable: options.searchParams.value, a ref owned by the caller
  cancelTask,  \* useCancelTask: let cancelTask, 0 for noop, else the call whose closure it is
  tasks,       \* useCancelTask: the invocations of the wrapped function, in issue order
  seen,        \* useSeeFile: the invocations of seeFile and what each opened
  returned     \* whether the composable's body has run to its return statement

taskVars == <<requestId, data, loading, error, apiParams, params, calls>>
tableVars == <<state, pagination, fetches, searchParams>>
cancelTaskVars == <<cancelTask, tasks>>
seeFileVars == <<seen>>
vars == <<hook, options, requestId, data, loading, error, apiParams, params,
          calls, state, pagination, fetches, searchParams, cancelTask, tasks,
          seen, returned>>

----------------------------------------------------------------------------
(* Bounds of the explored input space *)
MaxCalls == 2      \* execute invocations per useAsyncTask instance
MaxCancels == 1    \* cancel invocations per useAsyncTask instance
MaxFetches == 2    \* fetchData invocations per useTable instance
MaxTasks == 3      \* invocations of a function wrapped by useCancelTask
MaxSeen == 2       \* seeFile invocations per useSeeFile instance

----------------------------------------------------------------------------
(* JavaScript values, tagged by type so that values of different types can  *)
(* be compared.                                                            *)
Undefined == [type |-> "undefined"]
Null == [type |-> "null"]
Str(s) == [type |-> "string", str |-> s]
Num(n) == [type |-> "number", num |-> n]
Obj(f) == [type |-> "object", props |-> f]
Err(m) == [type |-> "error", message |-> m]
EmptyObject == Obj(<<>>)
TypeErrorNotAFunction == Err("TypeError: asyncFn is not a function")
TypeErrorUndefinedProp == Err("TypeError: cannot read properties of undefined")

\* obj[key] for a value that is not null/undefined: an own property or undefined
Prop(v, key) ==
  IF v.type = "object" /\ key \in DOMAIN v.props THEN v.props[key] ELSE Undefined

\* lodash get(object, path, defaultValue): walks the keys of the path, stops
\* at null/undefined, and yields defaultValue when the result is undefined
RECURSIVE Walk(_, _)
Walk(v, path) ==
  IF path = <<>> THEN v
  ELSE IF v.type \in {"undefined", "null"} THEN Undefined
  ELSE Walk(Prop(v, Head(path)), Tail(path))

get(object, path, defaultValue) ==
  LET r == Walk(object, path) IN IF r = Undefined THEN defaultValue ELSE r

----------------------------------------------------------------------------
(* useAsyncTask(asyncFn, initialValue, options)                             *)

\* the inputs explored for the arguments of useAsyncTask
Delays == {0, 50}
Paths == {<<"data">>, <<"data", "list">>}
InitialValue == Str("init")
BoundParams == Str("p0")
\* (onSuccess, onError, onFinally): absent, all returning, or onSuccess
\* throwing; onError and onFinally, called outside the try block, are taken
\* to return normally
CallbackProfiles ==
  { [onSuccess |-> "none", onError |-> "none", onFinally |-> "none"],
    [onSuccess |-> "returns", onError |-> "returns", onFinally |-> "returns"],
    [onSuccess |-> "throws", onError |-> "returns", onFinally |-> "returns"] }
\* (path, transform): a path or a custom transform function
Extractions ==
  { [path |-> p, transform |-> "none"] : p \in Paths } \cup
  { [path |-> <<"data">>, transform |-> "function"] }
TaskOption(f, x, d, i, cb) ==
  [asyncFn |-> f, initialValue |-> InitialValue, path |-> x.path, delay |-> d,
   params |-> BoundParams, paramsIsRef |-> FALSE, immediate |-> i,
   transform |-> x.transform,
   onSuccess |-> cb.onSuccess, onError |-> cb.onError, onFinally |-> cb.onFinally]
DefaultExtraction == [path |-> <<"data">>, transform |-> "none"]
DefaultCallbacks == [onSuccess |-> "none", onError |-> "none", onFinally |-> "none"]
\* options whose params is a ref (isRef(params)), owned by the caller
RefOption(d, i) ==
  [TaskOption("function", DefaultExtraction, d, i, DefaultCallbacks)
     EXCEPT !.paramsIsRef = TRUE]
\* the option objects explored: request function, delay and callbacks in
\* every combination under the default extraction and immediate, every
\* extraction with and without immediate under the other defaults, and a
\* params ref without immediate, and with immediate under every delay
TaskOptions ==
  { TaskOption(f, DefaultExtraction, d, TRUE, cb) :
      f \in {"function", "undefined"}, d \in Delays, cb \in CallbackProfiles } \cup
  { TaskOption("function", x, 0, i, DefaultCallbacks) :
      x \in Extractions, i \in BOOLEAN } \cup
  { RefOption(0, FALSE) } \cup { RefOption(d, TRUE) : d \in Delays }

\* what the request function can settle with
Responses ==
  { Obj([data |-> Num(42)]),
    Obj([data |-> Obj([list |-> Str("rows")])]) }
Rejections == { Err("request failed") }
Outcomes ==
  { [kind |-> "resolve", res |-> r] : r \in Responses } \cup
  { [kind |-> "reject", err |-> e] : e \in Rejections }
Pending == [kind |-> "pending"]
ErrorThrownByOnSuccess == Err("thrown by onSuccess")

\* arguments a caller passes to execute and to reset
OverrideParams == {Undefined, Str("p1")}
ResetValues == {Undefined, Str("blank")}
\* values the owner of a params ref gives it
RefValues == {BoundParams, Str("p2")}

\* resolveParams(overrideParams)
resolveParams(overrideParams) ==
  IF overrideParams # Undefined THEN overrideParams
  ELSE IF options.paramsIsRef THEN params ELSE options.params

\* a transform supplied by the caller: res => res.data.list.slice(), which throws
\* a TypeError when res.data.list is undefined
transform(res) ==
  LET l == Walk(res, <<"data", "list">>) IN
  IF l.type \in {"undefined", "null"}
    THEN [threw |-> TRUE, value |-> TypeErrorUndefinedProp]
    ELSE [threw |-> FALSE, value |-> l]

\* lines 103-110: the value extracted from a response
Extract(res) ==
  IF options.transform = "function" THEN transform(res)
  ELSE [threw |-> FALSE, value |-> get(res, options.path, EmptyObject)]

\* a slip in the comparison of line 99: a call is never found stale
IsStale_WrongComparison(currentId, rid) == currentId > rid
\* line 99: the response is discarded
IsStale(currentId, rid) == currentId # rid
\* the catch block without the check of line 120, as in useDict's fetchDict
CatchIsCurrent_Unchecked(currentId, rid) == TRUE
\* line 120: the catch block commits the error
CatchIsCurrent(currentId, rid) == currentId = rid
\* the finally block without the check of line 128
FinallyIsCurrent_Unchecked(currentId, rid) == TRUE
\* line 128: the finally block ends loading
FinallyIsCurrent(currentId, rid) == currentId = rid

\* lines 111-117: data.value = next, the success callback and the return
TryCommit(next, ap, res) ==
  [data |-> next,
   callbacks |-> IF options.onSuccess = "none" THEN <<>>
                 ELSE << [fn |-> "onSuccess", args |-> <<next, ap, res>>] >>,
   threw |-> options.onSuccess = "throws",
   thrown |-> IF options.onSuccess = "throws" THEN ErrorThrownByOnSuccess ELSE Null,
   value |-> IF options.onSuccess = "throws" THEN {} ELSE {"data", "loading"}]

\* lines 103-117 for the extraction result next (a value, or what it threw)
TryExtracted(next, d, ap, res) ==
  IF next.threw
    THEN [data |-> d, callbacks |-> <<>>, threw |-> TRUE, thrown |-> next.value,
          value |-> {}]
    ELSE TryCommit(next.value, ap, res)

\* lines 96-117, the try block once the request has settled with outcome:
\* what it wrote to data, the callbacks it called, and whether it returned
\* (with which keys) or threw (which error)
TryBlock(currentId, rid, d, ap, outcome) ==
  IF outcome.kind = "reject"
    THEN [data |-> d, callbacks |-> <<>>, threw |-> TRUE, thrown |-> outcome.err,
          value |-> {}]
  ELSE IF IsStale(currentId, rid)
    THEN [data |-> d, callbacks |-> <<>>, threw |-> FALSE, thrown |-> Null,
          value |-> {"data", "loading", "cancelled"}]
  ELSE TryExtracted(Extract(outcome.res), d, ap, outcome.res)

\* a catch block that ends in `throw e` instead of a return statement
CatchBlock_Rethrows(currentId, rid, e0, ap, e) ==
  [error |-> IF currentId = rid THEN e ELSE e0, rethrows |-> TRUE,
   callbacks |-> IF currentId = rid /\ options.onError # "none"
                   THEN << [fn |-> "onError", args |-> <<e, ap>>] >> ELSE <<>>]
\* lines 119-126, the catch block for the error e thrown in the try block;
\* it ends in a return statement on every path and never rethrows
CatchBlock(currentId, rid, e0, ap, e) ==
  IF CatchIsCurrent(currentId, rid)
    THEN [error |-> e, rethrows |-> FALSE,
          callbacks |-> IF options.onError = "none" THEN <<>>
                        ELSE << [fn |-> "onError", args |-> <<e, ap>>] >>]
    ELSE [error |-> e0, rethrows |-> FALSE, callbacks |-> <<>>]

\* a finally block that calls onFinally first, outside the check of line 128
FinallyBlock_CallbackFirst(currentId, rid, l) ==
  [loading |-> IF currentId = rid THEN FALSE ELSE l,
   callbacks |-> IF options.onFinally = "none" THEN <<>>
                 ELSE << [fn |-> "onFinally", args |-> <<>>, loading |-> l] >>]
\* lines 127-133, the finally block; the record of the onFinally call keeps
\* the value of loading.value the callback finds
FinallyBlock(currentId, rid, l) ==
  IF FinallyIsCurrent(currentId, rid)
    THEN [loading |-> FALSE,
          callbacks |-> IF options.onFinally = "none" THEN <<>>
                        ELSE << [fn |-> "onFinally", args |-> <<>>,
                                 loading |-> FALSE] >>]
    ELSE [loading |-> l, callbacks |-> <<>>]

\* the state and the settled promise left by the try block's result t, the
\* catch block's result c and the finally block's result f
Settled(t, c, f) ==
  [data |-> t.data, error |-> c.error, loading |-> f.loading,
   value |-> IF t.threw THEN {"error", "loading"} ELSE t.value,
   promise |-> IF c.rethrows THEN "rejected" ELSE "resolved",
   callbacks |-> t.callbacks \o c.callbacks \o f.callbacks]

\* lines 119-133 after the try block ended with t
AfterTry(t, currentId, rid, e0, l, ap) ==
  Settled(t,
          IF t.threw THEN CatchBlock(currentId, rid, e0, ap, t.thrown)
          ELSE [error |-> e0, rethrows |-> FALSE, callbacks |-> <<>>],
          FinallyBlock(currentId, rid, l))

\* lines 95-133: everything execute does, in one synchronous run, once the
\* request of the call with id currentId has settled with outcome, started
\* with requestId = rid, data = d, error = e0, loading = l, apiParams = ap
Completion(currentId, rid, d, e0, l, ap, outcome) ==
  AfterTry(TryBlock(currentId, rid, d, ap, outcome), currentId, rid, e0, l, ap)

\* line 96: asyncFn(apiParams.value); calling a non-function throws a
\* TypeError inside the try block, before anything is awaited
CallAsyncFn ==
  IF options.asyncFn = "function" THEN Pending
  ELSE [kind |-> "reject", err |-> TypeErrorNotAFunction]

NewCall(currentId, resolved) ==
  [currentId |-> currentId, pc |-> "delay", resolved |-> resolved,
   sent |-> Undefined, invoked |-> 0,
   outcome |-> Pending, promise |-> "pending", value |-> {}, callbacks |-> <<>>]

\* the call record and the state once execute has run to its end with done
Finished(c, outcome, done) ==
  [data |-> done.data, error |-> done.error, loading |-> done.loading,
   call |-> [c EXCEPT !.pc = "done", !.outcome = outcome,
                      !.promise = done.promise, !.value = done.value,
                      !.callbacks = done.callbacks]]

\* line 96 for the call c, run with requestId = rid, data = d, error = e0,
\* loading = l, apiParams = ap: the request is sent with ap and execute
\* is suspended on it, or the call throws and execute runs to its end
Invoke(c, rid, d, e0, l, ap) ==
  IF CallAsyncFn = Pending
    THEN [data |-> d, error |-> e0, loading |-> l,
          call |-> [c EXCEPT !.sent = ap, !.invoked = c.invoked + 1,
                             !.pc = "await"]]
    ELSE Finished([c EXCEPT !.sent = ap, !.invoked = c.invoked + 1],
                  CallAsyncFn,
                  Completion(c.currentId, rid, d, e0, l, ap, CallAsyncFn))

\* lines 83-96: execute(overrideParams) up to its first suspension point
execute(overrideParams) ==
  \E r \in { IF options.delay # 0
               THEN [data |-> data, error |-> Null, loading |-> TRUE,
                     call |-> NewCall(requestId + 1,
                                      resolveParams(overrideParams))]
               ELSE Invoke(NewCall(requestId + 1, resolveParams(overrideParams)),
                           requestId + 1, data, Null, TRUE,
                           resolveParams(overrideParams)) } :
     /\ requestId' = requestId + 1
     /\ apiParams' = resolveParams(overrideParams)
     /\ data' = r.data
     /\ error' = r.error
     /\ loading' = r.loading
     /\ calls' = Append(calls, r.call)
     /\ params' = params

\* lines 151-153: if (immediate) execute(resolveParams()), then return result
Immediate ==
  /\ hook = "useAsyncTask" /\ ~returned
  /\ returned' = TRUE
  /\ IF options.immediate THEN execute(resolveParams(Undefined))
     ELSE UNCHANGED taskVars
  /\ UNCHANGED <<hook, options, tableVars, cancelTaskVars, seeFileVars>>

Ready == hook = "useAsyncTask" /\ returned

\* a caller invokes execute(overrideParams)
Execute(overrideParams) ==
  /\ Ready /\ Len(calls) < MaxCalls
  /\ execute(overrideParams)
  /\ UNCHANGED <<hook, options, returned, tableVars,
                 cancelTaskVars, seeFileVars>>

\* line 137: refresh = () => execute(apiParams.value)
Refresh ==
  /\ Ready /\ Len(calls) < MaxCalls
  /\ execute(apiParams)
  /\ UNCHANGED <<hook, options, returned, tableVars,
                 cancelTaskVars, seeFileVars>>

\* lines 91-96: the delay of call i elapses and the request is sent
DelayElapsed(i) ==
  /\ Ready /\ calls[i].pc = "delay"
  /\ \E r \in {Invoke(calls[i], requestId, data, error, loading, apiParams)} :
       /\ data' = r.data
       /\ error' = r.error
       /\ loading' = r.loading
       /\ calls' = [calls EXCEPT ![i] = r.call]
  /\ UNCHANGED <<requestId, apiParams, params, hook, options, returned, tableVars,
                 cancelTaskVars, seeFileVars>>

\* lines 96-133: the request of call i settles and execute runs to its end
Settle(i, outcome) ==
  /\ Ready /\ calls[i].pc = "await"
  /\ \E r \in {Finished(calls[i], outcome,
                          Completion(calls[i].currentId, requestId, data, error,
                                     loading, apiParams, outcome))} :
       /\ data' = r.data
       /\ error' = r.error
       /\ loading' = r.loading
       /\ calls' = [calls EXCEPT ![i] = r.call]
  /\ UNCHANGED <<requestId, apiParams, params, hook, options, returned, tableVars,
                 cancelTaskVars, seeFileVars>>

\* a reset that also invalidates the call in flight and ends loading
Reset_AlsoCancels(val) ==
  /\ hook = "useAsyncTask" /\ returned
  /\ data' = IF val = Undefined THEN options.initialValue ELSE val
  /\ error' = Null
  /\ requestId' = requestId + 1
  /\ loading' = FALSE
  /\ UNCHANGED <<apiParams, params, calls, hook, options, returned, tableVars,
                 cancelTaskVars, seeFileVars>>
\* lines 140-143: reset(val = initialValue)
Reset(val) ==
  /\ Ready
  /\ data' = IF val = Undefined THEN options.initialValue ELSE val
  /\ error' = Null
  /\ UNCHANGED <<requestId, loading, apiParams, params, calls, hook, options,
                 returned, tableVars, cancelTaskVars, seeFileVars>>

\* a cancel that forgets line 148, loading.value = false
Cancel_KeepsLoading ==
  /\ hook = "useAsyncTask" /\ returned /\ requestId - Len(calls) < MaxCancels
  /\ requestId' = requestId + 1
  /\ UNCHANGED <<loading, data, error, apiParams, params, calls, hook, options,
                 returned, tableVars, cancelTaskVars, seeFileVars>>
\* lines 146-149: cancel()
Cancel ==
  /\ Ready /\ requestId - Len(calls) < MaxCancels
  /\ requestId' = requestId + 1
  /\ loading' = FALSE
  /\ UNCHANGED <<data, error, apiParams, params, calls, hook, options, returned,
                 tableVars, cancelTaskVars, seeFileVars>>

\* the owner of the params ref writes a new value to it
SetParams(v) ==
  /\ Ready /\ options.paramsIsRef /\ v # params
  /\ params' = v
  /\ UNCHANGED <<requestId, data, loading, error, apiParams, calls, hook, options,
                 returned, tableVars, cancelTaskVars, seeFileVars>>

\* lines 59-77: the refs of a useAsyncTask instance before line 151
TaskInit ==
  /\ hook = "useAsyncTask"
  /\ options \in TaskOptions
  /\ returned = FALSE
  /\ requestId = 0
  /\ data = options.initialValue
  /\ loading = FALSE
  /\ error = Null
  /\ apiParams = Null
  /\ params = options.params
  /\ calls = <<>>
  /\ state = Null /\ pagination = Null /\ fetches = <<>> /\ searchParams = Null
  /\ cancelTask = 0 /\ tasks = <<>> /\ seen = <<>>

TaskNext ==
  \/ Immediate
  \/ \E p \in OverrideParams : Execute(p)
  \/ Refresh
  \/ \E i \in DOMAIN calls : DelayElapsed(i)
  \/ \E i \in DOMAIN calls : \E o \in Outcomes : Settle(i, o)
  \/ \E v \in ResetValues : Reset(v)
  \/ Cancel
  \/ \E v \in RefValues : SetParams(v)

----------------------------------------------------------------------------
(* useTable(getData, options)                                               *)

Arr(items) == [type |-> "array", items |-> items]

\* the inputs explored for the arguments of useTable; a dotted path such as
\* 'data.list' is held as the sequence of its keys
SearchParamValues ==
  { <<>>, [keyword |-> Str("k"), pageNum |-> Num(9)] }
TableOption(g, a, l, p, sp, cb) ==
  [getData |-> g, autoLoad |-> a, showLoading |-> l, includePagination |-> p,
   searchParams |-> sp, onSuccess |-> cb]
\* a request function under every autoLoad/showLoading/onSuccess, and under
\* the other defaults a missing request function, no pagination parameters
\* and every initial search-parameter value
TableOptions ==
  { TableOption("function", a, l, TRUE, <<>>, cb) :
      a \in BOOLEAN, l \in BOOLEAN, cb \in {"none", "returns", "throws"} } \cup
  { TableOption("undefined", a, TRUE, TRUE, <<>>, "none") : a \in BOOLEAN } \cup
  { TableOption("function", TRUE, TRUE, p, sp, "none") :
      p \in BOOLEAN, sp \in SearchParamValues }

TableResponses ==
  { Obj([data |-> Obj([records |-> Arr(<<"a">>), total |-> Num(30)])]),
    Obj([data |-> Obj([records |-> Arr(<<"b">>)])]) }
TableOutcomes ==
  { [kind |-> "resolve", res |-> r] : r \in TableResponses } \cup
  { [kind |-> "reject", err |-> e] : e \in Rejections }
Pages == {2, 3}
Sizes == {20}
ErrorGetDataMustBeAFunction == Err("getData must be a function")

\* lines 389-397: defaultConfig.pagination
DefaultPageNum == 1
DefaultPageSize == 15
DefaultTotal == 0
defaultPagination ==
  [currentPageKey |-> "pageNum", pageSizeKey |-> "pageSize",
   dataField |-> <<"records">>, pageNum |-> DefaultPageNum,
   pageSize |-> DefaultPageSize, total |-> DefaultTotal]

\* lines 407-412: config.pagination = {...defaults, ...options.pagination,
\* ...options.searchParams?.value}: a search parameter named like a
\* pagination field replaces that field
configPagination ==
  LET sp == options.searchParams IN
  [defaultPagination EXCEPT
     !.pageNum = IF "pageNum" \in DOMAIN sp THEN sp.pageNum.num ELSE @,
     !.pageSize = IF "pageSize" \in DOMAIN sp THEN sp.pageSize.num ELSE @]

\* line 431: getNestedData(obj, path), each step guarded by ?.
getNestedData(obj, path) == Walk(obj, path)

\* {...a, ...b}: the keys of both, b winning on a key of both
Spread(a, b) ==
  [k \in DOMAIN a \cup DOMAIN b |-> IF k \in DOMAIN b THEN b[k] ELSE a[k]]

\* lines 460-463: the pagination part of the request parameters
PaginationParams(pg) ==
  IF options.includePagination
    THEN (configPagination.currentPageKey :> Num(pg.pageNum)) @@
         (configPagination.pageSizeKey :> Num(pg.pageSize))
    ELSE <<>>

\* the two spreads of lines 460-464 in the opposite order
RequestParams_PaginationWins(pg) == Spread(searchParams, PaginationParams(pg))
\* lines 459-465: the parameter object of a request
RequestParams(pg) == Spread(PaginationParams(pg), searchParams)

\* lines 483-486: the catch block writes the error
TableCatch(st, err) == [st EXCEPT !.error = err]
\* lines 487-489: the finally block ends loading
TableFinally(st) == [st EXCEPT !.loading = FALSE]

\* lines 476-489 for the extracted resultData: commit, callback, finally
TableCommit(st, resultData) ==
  TableFinally(
    IF options.onSuccess = "throws"
      THEN TableCatch([st EXCEPT !.data = resultData, !.initialized = TRUE],
                      ErrorThrownByOnSuccess)
      ELSE [st EXCEPT !.data = resultData, !.initialized = TRUE])

\* lines 472-475: pagination.total = data.total unless that is undefined
TableTotal(pg, total) ==
  IF total # Undefined THEN [pg EXCEPT !.total = total.num] ELSE pg

\* lines 467-489 for d, the data field of the response
TableResolved(st, pg, d) ==
  [state |-> TableCommit(st, IF configPagination.dataField # <<>>
                               THEN getNestedData(d, configPagination.dataField)
                               ELSE d),
   pagination |-> TableTotal(pg, Prop(d, "total")),
   callbacks |-> IF options.onSuccess = "none" THEN <<>>
                 ELSE << [fn |-> "onSuccess",
                          args |-> << IF configPagination.dataField # <<>>
                                        THEN getNestedData(d, configPagination.dataField)
                                        ELSE d >>] >>]

\* lines 467-489: everything fetchData does once its request has settled
\* with outcome, started with state = st and pagination = pg
TableCompletion(st, pg, outcome) ==
  IF outcome.kind = "reject"
    THEN [state |-> TableFinally(TableCatch(st, outcome.err)), pagination |-> pg,
          callbacks |-> <<>>]
    ELSE TableResolved(st, pg, Prop(outcome.res, "data"))

\* lines 452-467: fetchData() up to its suspension point, run with
\* pagination = pg as written by the handler that called it
fetchData(pg) ==
  IF options.getData # "function"
    THEN /\ fetches' = Append(fetches,
                 [pc |-> "done", params |-> <<>>, invoked |-> 0, outcome |-> Pending,
                  promise |-> "rejected", reason |-> ErrorGetDataMustBeAFunction,
                  callbacks |-> <<>>])
         /\ state' = state
    ELSE /\ fetches' = Append(fetches,
                 [pc |-> "await", params |-> RequestParams(pg), invoked |-> 1,
                  outcome |-> Pending, promise |-> "pending", reason |-> Null,
                  callbacks |-> <<>>])
         /\ state' = [state EXCEPT !.loading = options.showLoading, !.error = Null]

TableReady == hook = "useTable" /\ returned

\* lines 533-535: if (config.autoLoad) fetchData(), then return
AutoLoad ==
  /\ hook = "useTable" /\ ~returned
  /\ returned' = TRUE
  /\ IF options.autoLoad
       THEN fetchData(pagination) /\ UNCHANGED <<pagination, searchParams>>
       ELSE UNCHANGED tableVars
  /\ UNCHANGED <<hook, options, taskVars, cancelTaskVars, seeFileVars>>

\* a caller invokes fetchData()
FetchData ==
  /\ TableReady /\ Len(fetches) < MaxFetches
  /\ fetchData(pagination)
  /\ UNCHANGED <<pagination, searchParams, hook, options, returned, taskVars,
                 cancelTaskVars, seeFileVars>>

\* lines 498-503: handlePageChange(page)
handlePageChange(page) ==
  /\ TableReady /\ Len(fetches) < MaxFetches
  /\ pagination' = [pagination EXCEPT !.pageNum = page]
  /\ fetchData(pagination')
  /\ UNCHANGED <<searchParams, hook, options, returned, taskVars,
                 cancelTaskVars, seeFileVars>>

\* a handleSizeChange that forgets line 514, pagination.pageNum = 1
handleSizeChange_KeepsPage(size) ==
  /\ hook = "useTable" /\ returned /\ Len(fetches) < MaxFetches
  /\ pagination' = [pagination EXCEPT !.pageSize = size]
  /\ fetchData(pagination')
  /\ UNCHANGED <<searchParams, hook, options, returned, taskVars,
                 cancelTaskVars, seeFileVars>>
\* lines 511-517: handleSizeChange(size)
handleSizeChange(size) ==
  /\ TableReady /\ Len(fetches) < MaxFetches
  /\ pagination' = [pagination EXCEPT !.pageSize = size, !.pageNum = 1]
  /\ fetchData(pagination')
  /\ UNCHANGED <<searchParams, hook, options, returned, taskVars,
                 cancelTaskVars, seeFileVars>>

\* lines 524-530: reset()
TableReset ==
  /\ TableReady /\ Len(fetches) < MaxFetches
  /\ pagination' = [pagination EXCEPT !.pageNum = 1,
                                      !.pageSize = configPagination.pageSize]
  /\ fetchData(pagination')
  /\ UNCHANGED <<searchParams, hook, options, returned, taskVars,
                 cancelTaskVars, seeFileVars>>

\* lines 467-489: the request of fetchData call i settles
FetchSettle(i, outcome) ==
  /\ TableReady /\ fetches[i].pc = "await"
  /\ \E done \in {TableCompletion(state, pagination, outcome)} :
       /\ state' = done.state
       /\ pagination' = done.pagination
       /\ fetches' = [fetches EXCEPT ![i] =
                        [@ EXCEPT !.pc = "done", !.outcome = outcome,
                                  !.promise = "resolved",
                                  !.callbacks = done.callbacks]]
  /\ UNCHANGED <<searchParams, hook, options, returned, taskVars,
                 cancelTaskVars, seeFileVars>>

\* the owner of the searchParams ref writes a new value to it
SetSearchParams(v) ==
  /\ TableReady /\ v # searchParams
  /\ searchParams' = v
  /\ UNCHANGED <<state, pagination, fetches, hook, options, returned, taskVars,
                 cancelTaskVars, seeFileVars>>

\* lines 384-442: the reactive state of a useTable instance before line 533
TableInit ==
  /\ hook = "useTable"
  /\ options \in TableOptions
  /\ returned = FALSE
  /\ state = [data |-> Arr(<<>>), loading |-> FALSE, error |-> Null,
              initialized |-> FALSE]
  /\ pagination = configPagination
  /\ searchParams = options.searchParams
  /\ fetches = <<>>
  /\ requestId = 0 /\ data = Null /\ loading = FALSE /\ error = Null
  /\ apiParams = Null /\ params = Null /\ calls = <<>>
  /\ cancelTask = 0 /\ tasks = <<>> /\ seen = <<>>

TableNext ==
  \/ AutoLoad
  \/ FetchData
  \/ \E page \in Pages : handlePageChange(page)
  \/ \E size \in Sizes : handleSizeChange(size)
  \/ TableReset
  \/ \E i \in DOMAIN fetches : \E o \in TableOutcomes : FetchSettle(i, o)
  \/ \E v \in SearchParamValues : SetSearchParams(v)

----------------------------------------------------------------------------
(* useCancelTask(asyncTask), src/hooks/useCanceTask.js                      *)

\* the argument lists the wrapped function is called with
TaskArgs == {1, 2}
\* what the promise returned by asyncTask settles with
TaskOutcomes ==
  { [kind |-> "resolve", res |-> Str("result")],
    [kind |-> "reject", err |-> Err("task failed")] }
ErrorThrownByTask == Err("thrown by asyncTask")

\* line 33: cancelTask(), the closure of lines 34-36 left by the previous
\* call (or noop): it replaces that call's resolve and reject by noop
RunCancelTask(ts, c) ==
  IF c = 0 THEN ts ELSE [ts EXCEPT ![c].settle = "noop"]

\* a wrapper that never calls the previous call's cancel function
CancellableCall_NoCancel(args, throws) ==
  /\ hook = "useCancelTask" /\ Len(tasks) < MaxTasks
  /\ cancelTask' = Len(tasks) + 1
  /\ tasks' = Append(tasks,
        IF throws
          THEN [args |-> args, invoked |-> 1, settle |-> "live", pc |-> "done",
                promise |-> "rejected", value |-> ErrorThrownByTask]
          ELSE [args |-> args, invoked |-> 1, settle |-> "live", pc |-> "await",
                promise |-> "pending", value |-> Null])
  /\ UNCHANGED <<hook, options, returned, taskVars, tableVars, seeFileVars>>
\* lines 31-41: the wrapped function is called with args; the executor of the
\* new promise runs at once: it cancels the previous call, stores its own
\* cancel function and calls asyncTask, which returns a promise or throws (an
\* exception in the executor rejects the new promise)
CancellableCall(args, throws) ==
  /\ hook = "useCancelTask" /\ Len(tasks) < MaxTasks
  /\ cancelTask' = Len(tasks) + 1
  /\ tasks' = Append(RunCancelTask(tasks, cancelTask),
        IF throws
          THEN [args |-> args, invoked |-> 1, settle |-> "live", pc |-> "done",
                promise |-> "rejected", value |-> ErrorThrownByTask]
          ELSE [args |-> args, invoked |-> 1, settle |-> "live", pc |-> "await",
                promise |-> "pending", value |-> Null])
  /\ UNCHANGED <<hook, options, returned, taskVars, tableVars, seeFileVars>>

\* lines 37-40: the promise of asyncTask for call i settles with outcome and
\* the handler passed to then calls what resolve or reject holds by now
TaskSettled(i, outcome) ==
  /\ hook = "useCancelTask" /\ tasks[i].pc = "await"
  /\ tasks' = [tasks EXCEPT ![i] =
        IF tasks[i].settle = "noop" THEN [@ EXCEPT !.pc = "done"]
        ELSE [@ EXCEPT !.pc = "done",
                       !.promise = IF outcome.kind = "resolve" THEN "resolved"
                                   ELSE "rejected",
                       !.value = IF outcome.kind = "resolve" THEN outcome.res
                                 ELSE outcome.err]]
  /\ UNCHANGED <<cancelTask, hook, options, returned, taskVars, tableVars,
                 seeFileVars>>

\* lines 29-30: let cancelTask = noop, and the wrapper is returned
CancelTaskInit ==
  /\ hook = "useCancelTask"
  /\ options = [asyncTask |-> "function"]
  /\ returned = TRUE
  /\ cancelTask = 0 /\ tasks = <<>>
  /\ requestId = 0 /\ data = Null /\ loading = FALSE /\ error = Null
  /\ apiParams = Null /\ params = Null /\ calls = <<>>
  /\ state = Null /\ pagination = Null /\ fetches = <<>> /\ searchParams = Null
  /\ seen = <<>>

CancelTaskNext ==
  \/ \E a \in TaskArgs : \E t \in BOOLEAN : CancellableCall(a, t)
  \/ \E i \in DOMAIN tasks : \E o \in TaskOutcomes : TaskSettled(i, o)

----------------------------------------------------------------------------
(* useSeeFile({ props, emits, isHistory, notNeedCheckProcess }),            *)
(* src/unnamed/part_003                                                     *)

\* the extension lists of @/utils/publicConstant.js and getFileExtension of
\* @/utils/publicUtils.js are imported by part_003 and are not part of the
\* sources at hand: one extension stands for each list, '.png' for a file
\* that can be viewed online and is in none of the lists
NEED_ASSOCIATION_PRJ_FILE_EXTENSIONS == {".rvt"}
CAD_FILE_MAP == {".dwg"}
DOCS_FILE_EXTENSIONS == {".docx"}
TEXT_FILE == {".txt"}
CAN_VIEW_ONLINE_FILE == {".rvt", ".dwg", ".pdf", ".PDF", ".docx", ".txt", ".png"}
\* row.ext, and the extension getFileExtension yields for it
FileExtensionOf ==
  [rvt |-> ".rvt", dwg |-> ".dwg", pdf |-> ".pdf", PDF |-> ".PDF",
   docx |-> ".docx", txt |-> ".txt", png |-> ".png", zip |-> ".zip"]
getFileExtension(ext) == FileExtensionOf[ext]
\* String.prototype.toLowerCase on the extensions above
toLowerCase(str) == IF str = ".PDF" THEN ".pdf" ELSE str

\* the rows seeFile is called with: row.ext and row.progress
ParsedProgress == 100
Rows == [ext : DOMAIN FileExtensionOf, progress : {50, ParsedProgress}]

\* new Map(entries).get(key): of the entries under an equal key the last one
\* set is kept; undefined when there is none
MapGet(entries, key) ==
  IF \E j \in DOMAIN entries : entries[j][1] = key
    THEN entries[CHOOSE j \in DOMAIN entries :
                   /\ entries[j][1] = key
                   /\ \A k \in DOMAIN entries : entries[k][1] = key => k <= j][2]
    ELSE "undefined"

\* lines 176-180: isModelFile, isPdfFile, isDocsFile of an extension
isModelFile(fileExtension) ==
  fileExtension \in NEED_ASSOCIATION_PRJ_FILE_EXTENSIONS \cup CAD_FILE_MAP
isPdfFile(fileExtension) == toLowerCase(fileExtension) = ".pdf"
isDocsFile(fileExtension) ==
  toLowerCase(fileExtension) \in DOCS_FILE_EXTENSIONS \cup TEXT_FILE

\* lines 182-193: handlerMap, keyed by the three booleans, and
\* handlerMap.get(handlerType)
Handler(fileExtension) ==
  MapGet(<< <<isModelFile(fileExtension), "handleViewModelFile">>,
            <<isPdfFile(fileExtension), "handleViewPDF">>,
            <<isDocsFile(fileExtension), "handleViewDocs">> >>,
         isModelFile(fileExtension) \/ isDocsFile(fileExtension)
           \/ isPdfFile(fileExtension))

\* lines 160-194: what seeFile(row) shows: a warning, or the handlers it
\* calls with (fileExtension, row)
SeeFileResult(row, fileExtension) ==
  IF fileExtension \notin CAN_VIEW_ONLINE_FILE
    THEN [row |-> row, warning |-> "unsupported", handlers |-> <<>>]
  ELSE IF /\ fileExtension \in NEED_ASSOCIATION_PRJ_FILE_EXTENSIONS
          /\ row.progress # ParsedProgress /\ ~options.notNeedCheckProcess
    THEN [row |-> row, warning |-> "parsing", handlers |-> <<>>]
  ELSE [row |-> row, warning |-> "none",
        handlers |-> IF Handler(fileExtension) = "undefined" THEN <<>>
                     ELSE << Handler(fileExtension) >>]

\* lines 160-194: seeFile(row)
seeFile(row) ==
  /\ hook = "useSeeFile" /\ Len(seen) < MaxSeen
  /\ seen' = Append(seen, SeeFileResult(row, getFileExtension(row.ext)))
  /\ UNCHANGED <<hook, options, returned, taskVars, tableVars, cancelTaskVars>>

\* line 27: useSeeFile({ props, emits, isHistory, notNeedCheckProcess })
SeeFileInit ==
  /\ hook = "useSeeFile"
  /\ options \in [notNeedCheckProcess : BOOLEAN]
  /\ returned = TRUE
  /\ seen = <<>>
  /\ requestId = 0 /\ data = Null /\ loading = FALSE /\ error = Null
  /\ apiParams = Null /\ params = Null /\ calls = <<>>
  /\ state = Null /\ pagination = Null /\ fetches = <<>> /\ searchParams = Null
  /\ cancelTask = 0 /\ tasks = <<>>

SeeFileNext == \E row \in Rows : seeFile(row)

Init == TaskInit \/ TableInit \/ CancelTaskInit \/ SeeFileInit
Next == TaskNext \/ TableNext \/ CancelTaskNext \/ SeeFileNext
Spec == Init /\ [][Next]_vars

----------------------------------------------------------------------------
(* Properties of useAsyncTask                                               *)

\* call i reaches the end of execute in this step, its request having
\* settled (or its request function having thrown) after a suspension
SettlesNow(i) == calls[i].pc # "done" /\ calls'[i].pc = "done"
\* the ids of the issued calls; a requestId outside them was set by cancel()
IssuedIds == { calls[i].currentId : i \in DOMAIN calls }
AllSettled == calls # <<>> /\ \A i \in DOMAIN calls : calls[i].pc = "done"
\* the values reset() can have written to data
ResetWrites ==
  { IF v = Undefined THEN options.initialValue ELSE v : v \in ResetValues }
\* the error a settled call committed if it failed while current: the
\* rejection of its request, or what its transform or onSuccess threw
ErrorOf(call) ==
  IF call.outcome.kind = "reject" THEN call.outcome.err
  ELSE IF Extract(call.outcome.res).threw THEN Extract(call.outcome.res).value
  ELSE ErrorThrownByOnSuccess
Succeeded(call) ==
  call.outcome.kind = "resolve" /\ ~Extract(call.outcome.res).threw

\* C1, step part: a settling call changes data or error only if it is the
\* last-issued call, and what it writes is its own outcome
C1_OnlyLastCommits ==
  \A i \in DOMAIN calls :
    (SettlesNow(i) /\ <<data', error'>> # <<data, error>>) =>
      /\ i = Len(calls)
      /\ data' # data => (Succeeded(calls'[i]) /\
                          data' = Extract(calls'[i].outcome.res).value)
      /\ error' # error => error' = ErrorOf(calls'[i])
\* C1, final part: once every call has settled (and no cancel() followed the
\* last execute), data and error hold the last-issued call's outcome, or what
\* a reset() wrote after it
C1_FinalState ==
  (hook = "useAsyncTask" /\ AllSettled /\
   requestId = calls[Len(calls)].currentId) =>
    LET last == calls[Len(calls)] IN
    IF Succeeded(last)
      THEN /\ data \in {Extract(last.outcome.res).value} \cup ResetWrites
           /\ error \in {Null} \cup
                (IF options.onSuccess = "throws"
                   THEN {ErrorThrownByOnSuccess} ELSE {})
      ELSE error \in {ErrorOf(last), Null}
\* C1: for every sequence of execute calls and every settle order, only the
\* last-issued call's outcome is ever committed to data/error, and once all
\* calls have settled data and error reflect the last-issued call
C1_LastIssuedWins == [][C1_OnlyLastCommits]_vars /\ []C1_FinalState
\* two overlapping calls, the earlier one settled after the later one, whose
\* result is the one in data
C1_Witness ==
  /\ hook = "useAsyncTask" /\ AllSettled /\ Len(calls) >= 2
  /\ "cancelled" \in calls[1].value
  /\ Succeeded(calls[1]) /\ Succeeded(calls[Len(calls)])
  /\ calls[1].outcome # calls[Len(calls)].outcome
  /\ requestId = calls[Len(calls)].currentId
  /\ data = Extract(calls[Len(calls)].outcome.res).value

\* what a settling call may change, by whether it is current
C2_CommitIffCurrentStep ==
  \A i \in DOMAIN calls :
    SettlesNow(i) =>
      LET current == calls[i].currentId = requestId
          o == calls'[i].outcome
      IN /\ ~current => (data' = data /\ error' = error /\ loading' = loading)
         /\ current => <<data', error', loading'>> # <<data, error, loading>>
         /\ (current /\ Succeeded(calls'[i])) => data' = Extract(o.res).value
         /\ (current /\ o.kind = "reject") => (error' = o.err /\ data' = data)
\* C2: a settling call mutates state if and only if its id equals requestId:
\* a current success commits the extracted value to data, a current failure
\* commits to error, a stale one leaves data, error and loading as they were
C2_CommitIffCurrent == [][C2_CommitIffCurrentStep]_vars
\* a stale response was discarded and a current one was committed
C2_Witness ==
  /\ hook = "useAsyncTask" /\ Len(calls) >= 2
  /\ calls[1].pc = "done" /\ "cancelled" \in calls[1].value
  /\ calls[2].pc = "done" /\ calls[2].value = {"data", "loading"}
  /\ data = Extract(calls[2].outcome.res).value /\ data # options.initialValue

\* a cancel step, and a settlement under a requestId set by cancel()
C3_CancelStep ==
  /\ Cancel => (requestId' = requestId + 1 /\ loading' = FALSE)
  /\ \A i \in DOMAIN calls :
       (SettlesNow(i) /\ requestId \notin IssuedIds) =>
         /\ data' = data /\ error' = error /\ loading' = loading
         /\ loading' = FALSE
         /\ calls'[i].callbacks = <<>>
\* C3: cancel() increments requestId and sets loading to false at once; the
\* later settlement of a call that was in flight leaves data, error and
\* loading unchanged and invokes no callback
C3_CancelDiscards == [][C3_CancelStep]_vars
\* a single call, cancelled while in flight and settled afterwards, with
\* callbacks configured and none invoked
C3_Witness ==
  /\ hook = "useAsyncTask" /\ Len(calls) = 1 /\ calls[1].pc = "done"
  /\ calls[1].outcome \in Outcomes
  /\ requestId = calls[1].currentId + 1
  /\ options.onFinally = "returns" /\ calls[1].callbacks = <<>>
  /\ loading = FALSE

\* C6: loading is true exactly when the call whose id equals requestId has
\* been issued and has not yet settled
C6_LoadingIffCurrentInFlight ==
  hook = "useAsyncTask" =>
    (loading <=> \E i \in DOMAIN calls :
                   calls[i].currentId = requestId /\ calls[i].pc # "done")
\* an older call has settled while the newer one is in flight and loading
C6_Witness ==
  /\ hook = "useAsyncTask" /\ Len(calls) >= 2
  /\ calls[1].pc = "done" /\ calls[2].pc # "done" /\ loading

\* what a call that settles stale resolves with
C5_StaleCarriesMarkerStep ==
  \A i \in DOMAIN calls :
    (SettlesNow(i) /\ calls'[i].outcome \in Outcomes /\
     calls[i].currentId # requestId) =>
      (calls'[i].promise = "resolved" /\ "cancelled" \in calls'[i].value)
\* C5 as claimed: every call that is stale when it settles, resolved or
\* rejected request alike, resolves its promise with a value carrying the
\* cancelled marker
C5_StaleCarriesMarker == [][C5_StaleCarriesMarkerStep]_vars

Range(seq) == { seq[k] : k \in DOMAIN seq }
\* fetchData call i reaches its end in this step, its request having settled
FetchSettlesNow(i) == fetches[i].pc = "await" /\ fetches'[i].pc = "done"

\* a settlement whose request function rejected
C8_RejectionStep ==
  /\ \A i \in DOMAIN calls :
       (SettlesNow(i) /\ calls'[i].outcome.kind = "reject"
                      /\ calls'[i].outcome.err \in Rejections) =>
         /\ calls'[i].promise = "resolved"
         /\ calls[i].currentId = requestId =>
              /\ error' = calls'[i].outcome.err
              /\ data' = data
              /\ loading' = FALSE
              /\ options.onError # "none" =>
                   [fn |-> "onError",
                    args |-> <<calls'[i].outcome.err, calls'[i].sent>>]
                     \in Range(calls'[i].callbacks)
  /\ \A i \in DOMAIN fetches :
       (FetchSettlesNow(i) /\ fetches'[i].outcome.kind = "reject") =>
         /\ fetches'[i].promise = "resolved"
         /\ i = Len(fetches) =>
              /\ state'.error = fetches'[i].outcome.err
              /\ state'.data = state.data
              /\ state'.loading = FALSE
C9_MisuseIsRaised ==
  /\ (hook = "useAsyncTask" /\ options.asyncFn # "function") =>
       /\ \A i \in DOMAIN calls :
            calls[i].pc = "done" => calls[i].promise = "rejected"
       /\ error # TypeErrorNotAFunction
  /\ (hook = "useTable" /\ options.getData # "function") =>
       /\ \A i \in DOMAIN fetches : fetches[i].promise = "rejected"
       /\ state.error = Null

\* a reset step, and a current success after a reset
C10_ResetStep ==
  /\ \A v \in ResetValues :
       Reset(v) =>
         /\ data' = (IF v = Undefined THEN options.initialValue ELSE v)
         /\ error' = Null
         /\ requestId' = requestId /\ loading' = loading
         /\ apiParams' = apiParams /\ calls' = calls
  /\ \A i \in DOMAIN calls :
       (SettlesNow(i) /\ calls[i].currentId = requestId /\ Succeeded(calls'[i])
          /\ data \in ResetWrites) =>
         data' = Extract(calls'[i].outcome.res).value
\* C10: reset(x) sets data to x (the initial value when x is omitted) and
\* error to null whatever is in flight, and leaves requestId, loading and
\* apiParams unchanged; a call that then completes while still current
\* overwrites the reset value
C10_ResetFrame == [][C10_ResetStep]_vars
\* reset("blank") has acted while the current call is in flight
C10_Witness ==
  /\ hook = "useAsyncTask" /\ calls # <<>>
  /\ calls[Len(calls)].pc = "await"
  /\ calls[Len(calls)].currentId = requestId
  /\ loading /\ data = Str("blank") /\ error = Null

\* the parameters refresh() is to send: those of the last execute, and the
\* resolved default parameters when no execute has run
RefreshParams ==
  IF calls = <<>> THEN resolveParams(Undefined) ELSE calls[Len(calls)].resolved
\* C11 as claimed: refresh() is a fresh execute with the parameters that were
\* last sent, whatever the bound parameter source holds now, and with the
\* resolved default parameters when no execute has run before
C11_RefreshResends == [][Refresh => execute(RefreshParams)]_vars

\* C12 as claimed: every execute call whose delay (if any) has elapsed has
\* invoked the request function exactly once, with the parameters resolved
\* when the call was issued, whatever other calls were issued during its delay
C12_SendsOwnParams ==
  (hook = "useAsyncTask" /\ options.asyncFn = "function") =>
    \A i \in DOMAIN calls :
      calls[i].pc # "delay" =>
        (calls[i].invoked = 1 /\ calls[i].sent = calls[i].resolved)

\* how many times the callback fn was invoked among the calls cbs
CountFn(cbs, fn) == Cardinality({ k \in DOMAIN cbs : cbs[k].fn = fn })
\* the callbacks of a settling call, by whether it is current
C13_CallbackStep ==
  \A i \in DOMAIN calls :
    SettlesNow(i) =>
      LET cbs == calls'[i].callbacks IN
      IF calls[i].currentId = requestId
        THEN options.onFinally # "none" =>
               /\ CountFn(cbs, "onFinally") = 1
               /\ cbs[Len(cbs)].fn = "onFinally"
               /\ cbs[Len(cbs)].loading = FALSE
               /\ loading' = FALSE
        ELSE cbs = <<>>
\* C13: a call that is stale when its request settles invokes no callback; a
\* call that is current invokes onFinally exactly once, whether the request
\* resolved or rejected, as its last callback and with loading already false
C13_CallbacksOnlyWhenCurrent == [][C13_CallbackStep]_vars
\* with callbacks configured, a superseded call has settled without any
\* callback and the current call, its request rejected, called onFinally once
C13_Witness ==
  /\ hook = "useAsyncTask" /\ options.onFinally = "returns" /\ Len(calls) = 2
  /\ AllSettled /\ requestId = calls[2].currentId
  /\ calls[1].callbacks = <<>> /\ calls[1].outcome \in Outcomes
  /\ calls[2].outcome.kind = "reject"
  /\ CountFn(calls[2].callbacks, "onFinally") = 1
  /\ calls[2].callbacks[Len(calls[2].callbacks)].loading = FALSE

\* construction with immediate, and the settlement of the call it issued
\* when its request resolved and neither execute nor cancel() came between
C14_ImmediateStep ==
  /\ (Immediate /\ options.immediate) =>
       /\ Len(calls') = 1 /\ requestId' = 1
       /\ calls'[1].resolved =
            (IF options.paramsIsRef THEN params ELSE options.params)
       /\ apiParams' = calls'[1].resolved
  /\ (hook = "useAsyncTask" /\ options.immediate /\ Len(calls) = 1
        /\ requestId = 1 /\ SettlesNow(1)
        /\ calls'[1].outcome.kind = "resolve" /\ options.transform = "none") =>
       /\ data' = get(calls'[1].outcome.res, options.path, EmptyObject)
       /\ loading' = FALSE
       /\ error' = Null
\* C14 as claimed: with immediate, construction issues exactly one execute
\* with the resolved initial parameters; when its request resolves with
\* nothing issued or cancelled in between, data becomes the value at the
\* configured path (42 for {data: 42}), loading false and error null
C14_ImmediateRuns == [][C14_ImmediateStep]_vars

\* the settlement of a call that is current
C18_OutcomeStep ==
  \A i \in DOMAIN calls :
    (SettlesNow(i) /\ calls[i].currentId = requestId
       /\ calls'[i].outcome \in Outcomes) =>
      LET cbs == calls'[i].callbacks IN
      /\ (options.onSuccess # "none" /\ options.onError # "none") =>
           CountFn(cbs, "onSuccess") + CountFn(cbs, "onError") = 1
      /\ ~(data' # data /\ error' # error)
      /\ error' # error => calls'[i].outcome.kind = "reject"
\* C18 as claimed: a call that is current when it completes invokes exactly
\* one of onSuccess and onError and commits data or error, never both, and
\* error is committed only when the request function itself failed, whether
\* or not the transform function or the onSuccess callback throws
C18_DataOrError == [][C18_OutcomeStep]_vars

----------------------------------------------------------------------------
(* Properties of useTable                                                   *)

FetchResult(f) ==
  getNestedData(Prop(f.outcome.res, "data"), configPagination.dataField)

\* C4 as claimed: overlapping fetchData calls follow the stale-response
\* discard rule, so that after all of them have settled data (and a total
\* the response carried) is the result of the last-issued call
C4_LastFetchWins ==
  (hook = "useTable" /\ Len(fetches) >= 2 /\
   (\A i \in DOMAIN fetches : fetches[i].pc = "done") /\
   fetches[Len(fetches)].outcome.kind = "resolve") =>
    LET last == fetches[Len(fetches)]
        total == Walk(last.outcome.res, <<"data", "total">>)
    IN /\ state.data = FetchResult(last)
       /\ total # Undefined => pagination.total = total.num

\* the settlement of a superseded fetchData call
C7_SupersededIsSilentStep ==
  \A i \in DOMAIN fetches :
    (FetchSettlesNow(i) /\ i < Len(fetches) /\
     fetches[Len(fetches)].pc = "await") =>
      (state'.loading = state.loading /\ state'.error = state.error)
\* C7 as claimed: while a later-issued fetchData call is in flight, the
\* settlement of an earlier-issued one changes neither loading nor error
C7_SupersededIsSilent == [][C7_SupersededIsSilentStep]_vars

\* the fetchData call issued by the step
NewFetch == fetches'[Len(fetches')]
\* C15 as claimed: handleSizeChange(size) sets pageSize to size and pageNum
\* to 1 and issues exactly one fetchData call, whose request parameters carry
\* size under pageSizeKey and 1 under currentPageKey
C15_SizeChangeSendsPageOne ==
  [][\A size \in Sizes :
       (handleSizeChange(size) /\ options.getData = "function") =>
         /\ pagination'.pageSize = size /\ pagination'.pageNum = 1
         /\ Len(fetches') = Len(fetches) + 1
         /\ configPagination.pageSizeKey \in DOMAIN NewFetch.params
         /\ configPagination.currentPageKey \in DOMAIN NewFetch.params
         /\ NewFetch.params[configPagination.pageSizeKey] = Num(size)
         /\ NewFetch.params[configPagination.currentPageKey] = Num(1)]_vars
\* what the request parameters ps hold under the pagination key k, for the
\* pagination value v and the search parameters sp
CarriesUnder(ps, k, v, sp) ==
  IF k \in DOMAIN sp THEN k \in DOMAIN ps /\ ps[k] = sp[k]
  ELSE IF options.includePagination THEN k \in DOMAIN ps /\ ps[k] = Num(v)
  ELSE k \notin DOMAIN ps
C15_SizeChangeStep ==
  \A size \in Sizes :
    handleSizeChange(size) =>
      /\ pagination'.pageSize = size /\ pagination'.pageNum = 1
      /\ Len(fetches') = Len(fetches) + 1
      /\ SubSeq(fetches', 1, Len(fetches)) = fetches
      /\ NewFetch.invoked = (IF options.getData = "function" THEN 1 ELSE 0)
      /\ options.getData = "function" =>
           /\ CarriesUnder(NewFetch.params, configPagination.pageSizeKey, size,
                           searchParams)
           /\ CarriesUnder(NewFetch.params, configPagination.currentPageKey, 1,
                           searchParams)
\* C15 amended: handleSizeChange(size) sets pageSize to size and pageNum to 1
\* and issues exactly one fetchData call; its request carries size under
\* pageSizeKey and 1 under currentPageKey when pagination is included and
\* the search parameters do not define that key, the search parameter's
\* value when they do, and no request is made without a request function
C15_SizeChangeResetsPage == [][C15_SizeChangeStep]_vars
\* from page 3, handleSizeChange(20) has sent page 1 with size 20
C15_Witness ==
  /\ hook = "useTable" /\ Len(fetches) = 2
  /\ fetches[1].pc # "done" \/ fetches[1].outcome.kind = "resolve"
  /\ fetches[1].params = [pageNum |-> Num(3), pageSize |-> Num(DefaultPageSize)]
  /\ fetches[2].params = [pageNum |-> Num(1), pageSize |-> Num(20)]
  /\ pagination.pageNum = 1 /\ pagination.pageSize = 20

\* the parameters of a fetchData call issued by the step
C16_ParamsStep ==
  (hook = "useTable" /\ Len(fetches') = Len(fetches) + 1
     /\ options.getData = "function") =>
    LET ps == NewFetch.params
        pageKey == configPagination.currentPageKey
        sizeKey == configPagination.pageSizeKey
    IN /\ DOMAIN ps = DOMAIN searchParams \cup
                        (IF options.includePagination
                           THEN {pageKey, sizeKey} ELSE {})
       /\ \A k \in DOMAIN searchParams : ps[k] = searchParams[k]
       /\ (options.includePagination /\ pageKey \notin DOMAIN searchParams) =>
            ps[pageKey] = Num(pagination'.pageNum)
       /\ (options.includePagination /\ sizeKey \notin DOMAIN searchParams) =>
            ps[sizeKey] = Num(pagination'.pageSize)
\* C16: the parameters fetchData passes to the request function are, with
\* pagination included, the page number and page size of the pagination
\* state under currentPageKey and pageSizeKey merged with the search
\* parameters as they are at the call, a search parameter winning on a key of
\* both; with includePagination false they are the search parameters alone
C16_RequestParams == [][C16_ParamsStep]_vars
\* search parameters set after construction, holding a key of the pagination
\* part, have replaced the page number 2 of the request by their own
C16_Witness ==
  /\ hook = "useTable" /\ options.searchParams = <<>> /\ fetches # <<>>
  /\ pagination.pageNum = 2
  /\ fetches[Len(fetches)].params =
       [keyword |-> Str("k"), pageNum |-> Num(9), pageSize |-> Num(DefaultPageSize)]

----------------------------------------------------------------------------
(* Properties of useCancelTask                                              *)

\* what a step does to the promises of the calls issued so far
C17_PromiseStep ==
  hook = "useCancelTask" =>
    \A i \in DOMAIN tasks :
      /\ tasks'[i].invoked = 1
      /\ i < Len(tasks) =>
           (tasks'[i].promise = tasks[i].promise /\ tasks'[i].value = tasks[i].value)
      /\ \A o \in TaskOutcomes :
           (TaskSettled(i, o) /\ i = Len(tasks)) =>
             /\ tasks'[i].promise =
                  (IF o.kind = "resolve" THEN "resolved" ELSE "rejected")
             /\ tasks'[i].value = (IF o.kind = "resolve" THEN o.res ELSE o.err)
\* C17: once a newer call has been issued, the promise of an earlier call
\* that was still pending never resolves and never rejects; the promise of
\* the most recently issued call settles with the value or error of its own
\* task; and every call invokes the underlying task once
C17_OnlyLatestSettles == [][C17_PromiseStep]_vars
\* the task of a superseded call has settled and its promise is still
\* pending, while the latest call's promise resolved with its task's value
C17_Witness ==
  /\ hook = "useCancelTask" /\ Len(tasks) = 2
  /\ tasks[1].pc = "done" /\ tasks[1].promise = "pending"
  /\ tasks[2].pc = "done" /\ tasks[2].promise = "resolved"
  /\ tasks[2].value = Str("result")
  /\ tasks[1].invoked = 1 /\ tasks[2].invoked = 1

----------------------------------------------------------------------------
(* Properties of useSeeFile                                                 *)

\* the preview handler of the class of an extension, if it is in one
ClassHandler(fileExtension) ==
  IF isModelFile(fileExtension) THEN "handleViewModelFile"
  ELSE IF isPdfFile(fileExtension) THEN "handleViewPDF"
  ELSE IF isDocsFile(fileExtension) THEN "handleViewDocs"
  ELSE "undefined"
====
